---------------------------- MODULE Spec2Model ----------------------------
(***************************************************************************)
(* Model of music.py: index audio files under a media root, let the        *)
(* operator select artists, transcode the selected files with an external  *)
(* tool and move the originals into a "converted" tree, reporting the      *)
(* space saved.                                                            *)
(*                                                                         *)
(* A Python str is modelled as a sequence of tokens.  A token is one       *)
(* character ("/", ",", " ", a digit, a letter of the operator's input) or *)
(* an indivisible run of characters of a file name (".flac", "t",          *)
(* "FLAC_CONVERTED", "_old").  String functions work on token sequences    *)
(* the way the Python functions work on characters.                        *)
(***************************************************************************)
EXTENDS Integers, Sequences, FiniteSets, TLC

(***************************************************************************)
(* Python built-ins on str / list used by music.py                         *)
(***************************************************************************)

\* s.startswith(p)
StartsWith(s, p) ==
    /\ Len(p) <= Len(s)
    /\ SubSeq(s, 1, Len(p)) = p

\* s.endswith(p)
EndsWith(s, p) ==
    /\ Len(p) <= Len(s)
    /\ SubSeq(s, Len(s) - Len(p) + 1, Len(s)) = p

\* `sub in s` on two strings: substring containment
Contains(sub, s) ==
    \E k \in 0..(Len(s) - Len(sub)) : SubSeq(s, k + 1, k + Len(sub)) = sub

\* s.replace(old, new): every non-overlapping occurrence, left to right
RECURSIVE StrReplace(_, _, _)
StrReplace(s, old, new) ==
    IF Len(s) = 0 THEN <<>>
    ELSE IF StartsWith(s, old)
         THEN new \o StrReplace(SubSeq(s, Len(old) + 1, Len(s)), old, new)
         ELSE <<Head(s)>> \o StrReplace(Tail(s), old, new)

\* s.split(sep) for a one-character separator: the list of fields
RECURSIVE StrSplit(_, _)
StrSplit(s, sep) ==
    IF \A k \in 1..Len(s) : s[k] # sep THEN <<s>>
    ELSE LET k == CHOOSE j \in 1..Len(s) :
                     s[j] = sep /\ \A h \in 1..(j - 1) : s[h] # sep
         IN  <<SubSeq(s, 1, k - 1)>> \o StrSplit(SubSeq(s, k + 1, Len(s)), sep)

\* s.strip(): leading and trailing blanks removed
RECURSIVE StrStrip(_)
StrStrip(s) ==
    IF Len(s) = 0 THEN s
    ELSE IF Head(s) = " " THEN StrStrip(Tail(s))
    ELSE IF s[Len(s)] = " " THEN StrStrip(SubSeq(s, 1, Len(s) - 1))
    ELSE s

\* s.lower(), on the letters the operator's input is made of
LowerChar(c) ==
    CASE c = "A" -> "a"
      [] c = "L" -> "l"
      [] c = "Y" -> "y"
      [] c = "N" -> "n"
      [] OTHER   -> c
StrLower(s) == [k \in 1..Len(s) |-> LowerChar(s[k])]

\* s.isdigit(): non-empty and every character a digit
Digits == <<"0", "1", "2", "3", "4", "5", "6", "7", "8", "9">>
IsDigitChar(c) == \E d \in 1..Len(Digits) : Digits[d] = c
StrIsDigit(s) ==
    /\ Len(s) > 0
    /\ \A k \in 1..Len(s) : IsDigitChar(s[k])

\* int(s) for a string of digits
DigitValue(c) == (CHOOSE d \in 1..Len(Digits) : Digits[d] = c) - 1
RECURSIVE StrInt(_)
StrInt(s) ==
    IF Len(s) = 0 THEN 0
    ELSE 10 * StrInt(SubSeq(s, 1, Len(s) - 1)) + DigitValue(s[Len(s)])

\* the elements of a list, as a set
Range(s) == {s[k] : k \in 1..Len(s)}

\* concatenation of a list of lists
RECURSIVE Flatten(_)
Flatten(ss) ==
    IF Len(ss) = 0 THEN <<>> ELSE Head(ss) \o Flatten(Tail(ss))

(***************************************************************************)
(* os.path on POSIX paths                                                  *)
(***************************************************************************)

os_sep == "/"

\* os.path.join(a, b)
PathJoin(a, b) ==
    IF StartsWith(b, <<os_sep>>) THEN b
    ELSE IF Len(a) = 0 \/ EndsWith(a, <<os_sep>>) THEN a \o b
    ELSE a \o <<os_sep>> \o b

\* os.path.dirname(p): everything before the last separator
DirName(p) ==
    IF \A k \in 1..Len(p) : p[k] # os_sep THEN <<>>
    ELSE LET k == CHOOSE j \in 1..Len(p) :
                     p[j] = os_sep /\ \A h \in (j + 1)..Len(p) : p[h] # os_sep
         IN  IF k = 1 THEN <<os_sep>> ELSE SubSeq(p, 1, k - 1)

\* the non-empty fields of an absolute path
PathParts(p) == SelectSeq(StrSplit(p, os_sep), LAMBDA x : Len(x) > 0)

\* os.path.relpath(path, start) for absolute paths
RelPath(path, start) ==
    LET pl  == PathParts(path)
        sl  == PathParts(start)
        m   == IF Len(pl) < Len(sl) THEN Len(pl) ELSE Len(sl)
        i   == CHOOSE c \in 0..m :
                   /\ \A k \in 1..c : pl[k] = sl[k]
                   /\ c = m \/ pl[c + 1] # sl[c + 1]
        rel == [k \in 1..(Len(sl) - i) |-> <<"..">>] \o SubSeq(pl, i + 1, Len(pl))
    IN  IF Len(rel) = 0 THEN <<".">>
        ELSE Flatten([k \in 1..Len(rel) |->
                        IF k = 1 THEN rel[k] ELSE <<os_sep>> \o rel[k]])

(***************************************************************************)
(* Module-level configuration                                              *)
(***************************************************************************)

music_dir == <<"/", "Volumes", "/", "Media", "/", "Music">>
flac_converted_dir == PathJoin(music_dir, <<"FLAC_CONVERTED">>)
m4a_converted_dir == PathJoin(music_dir, <<"M4A_CONVERTED">>)


(***************************************************************************)
(* The file system: regular files with their sizes, and directories        *)
(***************************************************************************)

\* an absolute path from its list of names
MkPath(names) == Flatten([k \in 1..Len(names) |-> <<os_sep>> \o names[k]])

\* a directory and all its ancestors (what os.makedirs(d, exist_ok=True) ensures)
RECURSIVE Ancestors(_)
Ancestors(d) ==
    IF Len(d) = 0 \/ d = <<os_sep>> THEN {}
    ELSE {d} \cup Ancestors(DirName(d))

\* os.makedirs(d, exist_ok=True)
MakeDirs(D, d) == D \cup Ancestors(d)

\* The order in which a directory lists its entries.  os.listdir's order is
\* fixed by the file system; every name that can occur is given a place.
NameOrder ==
    << <<"G">>, <<"A">>, <<"B">>, <<"al">>,
       <<"x", ".flac", ".d">>, <<"x", ".mp3", ".d">>,
       <<"FLAC_CONVERTED">>, <<"M4A_CONVERTED">>, <<"FLAC_CONVERTED", "_old">>,
       <<"t", ".flac">>, <<"u", ".flac">>, <<"t", ".m4a">>, <<"t", ".mp3">>,
       <<"c", ".jpg">> >>

\* os.walk(top), top-down: one (root, files) entry per directory
RECURSIVE Walk(_, _, _)
Walk(top, F, D) ==
    LET subdirs == SelectSeq(NameOrder, LAMBDA n : PathJoin(top, n) \in D)
        files   == SelectSeq(NameOrder, LAMBDA n : PathJoin(top, n) \in F)
    IN  <<[root |-> top, files |-> files]>>
        \o Flatten([k \in 1..Len(subdirs) |-> Walk(PathJoin(top, subdirs[k]), F, D)])

(***************************************************************************)
(* index_music_files                                                       *)
(***************************************************************************)

\* line 33: the directories the walk skips
SkipRoot(root) ==
    \/ Contains(flac_converted_dir, root)
    \/ Contains(m4a_converted_dir, root)

\* lines 36-40: the files of one walked directory, classified by extension
IndexRoot(entry, ext) ==
    IF SkipRoot(entry.root) THEN <<>>
    ELSE LET hits == SelectSeq(entry.files, LAMBDA f :
                        IF ext = ".flac" THEN EndsWith(f, <<".flac">>)
                        ELSE ~EndsWith(f, <<".flac">>) /\ EndsWith(f, <<".m4a">>))
         IN  [k \in 1..Len(hits) |-> PathJoin(entry.root, hits[k])]

\* lines 28-41 and 44: the two lists index_music_files returns
IndexLists(F, D) ==
    LET w == Walk(music_dir, F, D)
    IN  [flac |-> Flatten([k \in 1..Len(w) |-> IndexRoot(w[k], ".flac")]),
         m4a  |-> Flatten([k \in 1..Len(w) |-> IndexRoot(w[k], ".m4a")])]

(***************************************************************************)
(* The snapshot file: json.dump and json.load                              *)
(***************************************************************************)

\* a JSON string literal (no token of a path needs escaping)
JsonStr(s) == <<"\"">> \o s \o <<"\"">>

\* a JSON array of strings, with json.dump's ", " item separator
JsonList(l) ==
    <<"[">>
    \o Flatten([k \in 1..Len(l) |->
                  (IF k > 1 THEN <<",", " ">> ELSE <<>>) \o JsonStr(l[k])])
    \o <<"]">>

\* json.dump({'flac': flac_files, 'm4a': m4a_files}, f)
JsonDump(flac, m4a) ==
    <<"{">>
    \o JsonStr(<<"flac">>) \o <<":", " ">> \o JsonList(flac)
    \o <<",", " ">>
    \o JsonStr(<<"m4a">>) \o <<":", " ">> \o JsonList(m4a)
    \o <<"}">>

\* faulty variant: the snapshot opened in append mode
WriteIndexAppend(old, text) == old \o text

\* open(index_file, 'w') ... json.dump: the file's new text
WriteIndex(old, text) == text

JsonFail == [ok |-> FALSE, val |-> <<>>, rest |-> <<>>]

\* skip white space between JSON tokens
RECURSIVE JsonWs(_)
JsonWs(t) == IF Len(t) > 0 /\ Head(t) = " " THEN JsonWs(Tail(t)) ELSE t

\* parse one string literal at the head of t
JsonParseStr(t0) ==
    LET t == JsonWs(t0)
    IN  IF Len(t) = 0 \/ Head(t) # "\"" THEN JsonFail
        ELSE IF \A k \in 2..Len(t) : t[k] # "\"" THEN JsonFail
        ELSE LET k == CHOOSE j \in 2..Len(t) :
                         t[j] = "\"" /\ \A h \in 2..(j - 1) : t[h] # "\""
             IN  [ok |-> TRUE, val |-> SubSeq(t, 2, k - 1),
                  rest |-> SubSeq(t, k + 1, Len(t))]

\* the items of an array after its "[" (first = no item read yet)
RECURSIVE JsonParseItems(_, _, _)
JsonParseItems(t0, acc, first) ==
    LET t == JsonWs(t0)
    IN  IF Len(t) = 0 THEN JsonFail
        ELSE IF Head(t) = "]" /\ (first \/ Len(acc) > 0)
             THEN [ok |-> TRUE, val |-> acc, rest |-> Tail(t)]
        ELSE IF ~first /\ Head(t) # "," THEN JsonFail
        ELSE LET s == JsonParseStr(IF first THEN t ELSE Tail(t))
             IN  IF ~s.ok THEN JsonFail
                 ELSE JsonParseItems(s.rest, Append(acc, s.val), FALSE)

\* parse one array of strings
JsonParseList(t0) ==
    LET t == JsonWs(t0)
    IN  IF Len(t) = 0 \/ Head(t) # "[" THEN JsonFail
        ELSE JsonParseItems(Tail(t), <<>>, TRUE)

\* the members of an object after its "{": a list of [key, val] records
RECURSIVE JsonParseMembers(_, _, _)
JsonParseMembers(t0, acc, first) ==
    LET t == JsonWs(t0)
    IN  IF Len(t) = 0 THEN JsonFail
        ELSE IF Head(t) = "}" /\ first
             THEN [ok |-> TRUE, val |-> acc, rest |-> Tail(t)]
        ELSE IF Head(t) = "}" /\ Len(acc) > 0
             THEN [ok |-> TRUE, val |-> acc, rest |-> Tail(t)]
        ELSE IF ~first /\ Head(t) # "," THEN JsonFail
        ELSE LET k == JsonParseStr(IF first THEN t ELSE Tail(t))
                 c == IF k.ok THEN JsonWs(k.rest) ELSE <<>>
             IN  IF ~k.ok \/ Len(c) = 0 \/ Head(c) # ":" THEN JsonFail
                 ELSE LET v == JsonParseList(Tail(c))
                      IN  IF ~v.ok THEN JsonFail
                          ELSE JsonParseMembers(v.rest,
                                   Append(acc, [key |-> k.val, val |-> v.val]),
                                   FALSE)

\* json.load(f): the whole text must be one object
JsonLoad(t0) ==
    LET t == JsonWs(t0)
    IN  IF Len(t) = 0 \/ Head(t) # "{" THEN JsonFail
        ELSE LET m == JsonParseMembers(Tail(t), <<>>, TRUE)
             IN  IF ~m.ok \/ Len(JsonWs(m.rest)) > 0 THEN JsonFail
                 ELSE [ok |-> TRUE, val |-> m.val, rest |-> <<>>]

\* data[key]: the last member with that key
JsonHas(members, key) == \E k \in 1..Len(members) : members[k].key = key
JsonGet(members, key) ==
    LET k == CHOOSE j \in 1..Len(members) :
                 /\ members[j].key = key
                 /\ \A h \in (j + 1)..Len(members) : members[h].key # key
    IN  members[k].val

\* load_index, lines 46-49: [ok, flac, m4a]; ok is FALSE when it raises
LoadIndex(text) ==
    LET data == JsonLoad(text)
    IN  IF data.ok /\ JsonHas(data.val, <<"flac">>) /\ JsonHas(data.val, <<"m4a">>)
        THEN [ok |-> TRUE, flac |-> JsonGet(data.val, <<"flac">>),
              m4a |-> JsonGet(data.val, <<"m4a">>)]
        ELSE [ok |-> FALSE, flac |-> <<>>, m4a |-> <<>>]

(***************************************************************************)
(* get_artists_with_files and select_artists                               *)
(***************************************************************************)

\* lines 54-56: the artist of a path, <<>> standing for "no artist"
ArtistDepth == 5
HasArtist(file) == Len(StrSplit(file, os_sep)) > ArtistDepth
\* faulty variant: the artist taken one segment too early
ArtistOfOneLevelUp(file) ==
    LET parts == StrSplit(file, os_sep)
    IN  parts[ArtistDepth]
ArtistOf(file) ==
    LET parts == StrSplit(file, os_sep)
    IN  parts[ArtistDepth + 1]

\* lines 51-57: the set built by get_artists_with_files
ArtistSet(files) ==
    {ArtistOf(files[k]) : k \in {j \in 1..Len(files) : HasArtist(files[j])}}

\* line 58: list(artists) puts the set in some order
ArtistLists(files) ==
    LET S == ArtistSet(files)
    IN  {l \in [1..Cardinality(S) -> S] : Range(l) = S}

\* lines 67-72: the value select_artists returns, or raised = TRUE when the
\* list index of line 71 is out of range (IndexError)
SelectArtists(artistList, line, allow_all) ==
    IF allow_all /\ StrLower(StrStrip(line)) = <<"a", "l", "l">>
    THEN [raised |-> FALSE, val |-> artistList]
    ELSE LET nums == SelectSeq(StrSplit(line, ","),
                               LAMBDA num : StrIsDigit(StrStrip(num)))
             selected_indices ==
                 [k \in 1..Len(nums) |-> StrInt(StrStrip(nums[k])) - 1]
             kept == SelectSeq(selected_indices, LAMBDA x : x >= 0)
         IN  IF \E k \in 1..Len(kept) : kept[k] >= Len(artistList)
             THEN [raised |-> TRUE, val |-> <<>>]
             ELSE [raised |-> FALSE,
                   val |-> [k \in 1..Len(kept) |-> artistList[kept[k] + 1]]]

(***************************************************************************)
(* convert_file and the pieces of process_files                            *)
(***************************************************************************)

\* faulty variant: the except branch's `return False` is missing
ConvertFileReturnsAlwaysTrue(dry, exit) == TRUE

\* lines 75-83: what convert_file returns, given the transcoder's exit status
ConvertFileReturns(dry, exit) ==
    IF dry THEN TRUE ELSE exit = 0

\* line 96: the output path handed to the converter
OutputFile(file) ==
    StrReplace(StrReplace(file, <<".flac">>, <<".mp3">>), <<".m4a">>, <<".mp3">>)

\* line 95: is this file's artist among the selected ones
IsSelected(file, selection) ==
    /\ HasArtist(file)
    /\ ArtistOf(file) \in Range(selection)

\* line 100: where the original is moved
NewPath(file, converted_dir) ==
    PathJoin(converted_dir, RelPath(file, music_dir))

\* line 105: shutil.move(file, new_path) on the map of files
MoveFile(F, file, new_path) ==
    [p \in (DOMAIN F \ {file}) \cup {new_path} |->
        IF p = new_path THEN F[file] ELSE F[p]]

\* line 98: total_original_size += original_size
AddOriginal(total, size) == total + size

\* faulty variant: a saving that is never reported below zero
SpaceSavedClamped(original, converted) ==
    IF original > converted THEN original - converted ELSE 0

\* line 113: space_saved
SpaceSaved(original, converted) == original - converted

\* line 91: the loop takes the files one after the other
NextFile(k) == k + 1

(***************************************************************************)
(* The environment: the media tree, the operator and the transcoder        *)
(***************************************************************************)

MaxFiles == 2
MaxRuns == 2

\* the files a media tree is drawn from, with their sizes in bytes
Candidates ==
    << [path |-> MkPath(<<<<"Volumes">>, <<"Media">>, <<"Music">>, <<"G">>, <<"A">>,
                          <<"al">>, <<"t", ".flac">>>>),             size |-> 4],
       [path |-> MkPath(<<<<"Volumes">>, <<"Media">>, <<"Music">>, <<"G">>, <<"B">>,
                          <<"al">>, <<"t", ".flac">>>>),             size |-> 5],
       [path |-> MkPath(<<<<"Volumes">>, <<"Media">>, <<"Music">>, <<"G">>, <<"A">>,
                          <<"al">>, <<"t", ".m4a">>>>),              size |-> 3],
       [path |-> MkPath(<<<<"Volumes">>, <<"Media">>, <<"Music">>, <<"G">>, <<"A">>,
                          <<"x", ".flac", ".d">>, <<"t", ".flac">>>>), size |-> 6],
       [path |-> MkPath(<<<<"Volumes">>, <<"Media">>, <<"Music">>, <<"G">>, <<"A">>,
                          <<"x", ".mp3", ".d">>, <<"c", ".jpg">>>>), size |-> 1],
       [path |-> MkPath(<<<<"Volumes">>, <<"Media">>, <<"Music">>,
                          <<"FLAC_CONVERTED", "_old">>, <<"A">>,
                          <<"t", ".flac">>>>),                       size |-> 4],
       [path |-> MkPath(<<<<"Volumes">>, <<"Media">>, <<"Music">>,
                          <<"FLAC_CONVERTED">>, <<"G">>, <<"A">>, <<"al">>,
                          <<"u", ".flac">>>>),                       size |-> 5],
       [path |-> MkPath(<<<<"Volumes">>, <<"Media">>, <<"Music">>,
                          <<"t", ".flac">>>>),                       size |-> 3] >>

\* the sizes the transcoder's output can have (smaller or larger than the input)
OutSizes == {2, 12}

\* the exit statuses of the transcoder
ExitCodes == {0, 1}

\* the operator's answers to "Refresh index? (y/n)"
Answers == { <<"y">>, <<" ", "Y">>, <<"n">>, <<>> }

\* the operator's selection lines
Choices ==
    { <<>>, <<"0">>, <<"1">>, <<"2">>, <<"1", ",", "2">>, <<"2", ",", "1">>,
      <<" ", "2", " ", ",", "x">>, <<"0", ",", "2", ",", "5">>, <<"3">>,
      <<"a", "l", "l">>, <<" ", "A", "L", "L", " ">> }

\* lines 24-25: the converted directories are created when the module loads
ModuleInit(D) == MakeDirs(MakeDirs(D, flac_converted_dir), m4a_converted_dir)

NoReport == [printed |-> FALSE, original |-> 0, converted |-> 0, saved |-> 0]

(***************************************************************************)
(* State                                                                   *)
(***************************************************************************)

VARIABLES
    fs,                    \* the regular files: path |-> size in bytes
    dirs,                  \* the directories
    index_file,            \* music_index.json: [exists, text]
    dry_run,               \* the --dry-run flag of this run
    runs,                  \* how many times the script has been started
    pc,                    \* where the run is
    error,                 \* the uncaught exception that ended the run
    stage,                 \* "flac" or "m4a": which half of main is running
    flac_files, m4a_files, \* main's two lists
    loaded,                \* the lists came from load_index
    indexed,               \* what index_music_files last returned
    artists, choices,      \* select_artists' menu and the line it read
    convert_artists,       \* what select_artists returned
    i,                     \* process_files: position in files
    output_file,           \* process_files: the current output path
    total_original_size, total_converted_size,
    report,                \* the figures this call of process_files logged
    trace                  \* the converter calls and moves of this batch

vars == <<fs, dirs, index_file, dry_run, runs, pc, error, stage, flac_files,
          m4a_files, loaded, indexed, artists, choices, convert_artists, i,
          output_file, total_original_size, total_converted_size, report,
          trace>>

\* process_files' arguments in the current stage (lines 140 and 148)
files == IF stage = "flac" THEN flac_files ELSE m4a_files
converted_dir == IF stage = "flac" THEN flac_converted_dir ELSE m4a_converted_dir

Init ==
    /\ \E S \in SUBSET (1..Len(Candidates)) :
          /\ Cardinality(S) \in 1..MaxFiles
          /\ fs = [p \in {Candidates[k].path : k \in S} |->
                      (CHOOSE c \in Range(Candidates) : c.path = p).size]
          /\ dirs = ModuleInit(UNION {Ancestors(DirName(Candidates[k].path)) : k \in S})
    /\ index_file = [exists |-> FALSE, text |-> <<>>]
    /\ dry_run \in BOOLEAN
    /\ runs = 1
    /\ pc = "main"
    /\ error = "none"
    /\ stage = "flac"
    /\ flac_files = <<>> /\ m4a_files = <<>>
    /\ loaded = FALSE
    /\ indexed = [flac |-> <<>>, m4a |-> <<>>]
    /\ artists = <<>> /\ choices = <<>> /\ convert_artists = <<>>
    /\ i = 1
    /\ output_file = <<>>
    /\ total_original_size = 0 /\ total_converted_size = 0
    /\ report = NoReport
    /\ trace = <<>>

(***************************************************************************)
(* main, lines 122-134                                                     *)
(***************************************************************************)

\* lines 123-124: the operator asked for a refresh
WantsRefresh(answer) == StrLower(StrStrip(answer)) = <<"y">>

\* lines 125 and 129: index_music_files, which also writes the snapshot
MainIndex ==
    /\ pc = "main"
    /\ \/ ~index_file.exists
       \/ index_file.exists /\ \E answer \in Answers : WantsRefresh(answer)
    /\ LET lists == IndexLists(DOMAIN fs, dirs)
       IN  /\ index_file' = [exists |-> TRUE,
                             text |-> WriteIndex(index_file.text,
                                                 JsonDump(lists.flac, lists.m4a))]
           /\ flac_files' = lists.flac
           /\ m4a_files' = lists.m4a
           /\ indexed' = lists
    /\ loaded' = FALSE
    /\ stage' = "flac"
    /\ pc' = "select"
    /\ UNCHANGED <<fs, dirs, dry_run, runs, error, artists, choices,
                   convert_artists, i, output_file, total_original_size,
                   total_converted_size, report, trace>>

\* line 127: load_index
MainLoad ==
    /\ pc = "main"
    /\ index_file.exists
    /\ \E answer \in Answers : ~WantsRefresh(answer)
    /\ LET r == LoadIndex(index_file.text)
       IN  IF r.ok
           THEN /\ flac_files' = r.flac
                /\ m4a_files' = r.m4a
                /\ loaded' = TRUE
                /\ stage' = "flac"
                /\ pc' = "select"
                /\ error' = error
           ELSE /\ pc' = "raised"
                /\ error' = "JSONDecodeError"
                /\ UNCHANGED <<flac_files, m4a_files, loaded, stage>>
    /\ UNCHANGED <<fs, dirs, index_file, dry_run, runs, indexed, artists, choices,
                   convert_artists, i, output_file, total_original_size,
                   total_converted_size, report, trace>>

\* lines 133-137 and 144-145: the menu is built and one line is read
Select ==
    /\ pc = "select"
    /\ \E l \in ArtistLists(files), line \in Choices :
          LET r == SelectArtists(l, line, stage = "m4a")
          IN  /\ artists' = l
              /\ choices' = line
              /\ convert_artists' = r.val
              /\ pc' = IF r.raised THEN "raised" ELSE "selected"
              /\ error' = IF r.raised THEN "IndexError" ELSE error
    /\ UNCHANGED <<fs, dirs, index_file, dry_run, runs, stage, flac_files,
                   m4a_files, loaded, indexed, i, output_file,
                   total_original_size, total_converted_size, report, trace>>

\* after a stage: the M4A half follows the FLAC half, then main returns
AfterStage == IF stage = "flac" THEN "select" ELSE "done"
StageAfter == IF stage = "flac" THEN "m4a" ELSE stage

\* lines 138-142 and 146-150: a batch is run when the selection is not empty
Dispatch ==
    /\ pc = "selected"
    /\ IF Len(convert_artists) > 0
       THEN /\ pc' = "pf_loop"
            /\ i' = 1
            /\ total_original_size' = 0
            /\ total_converted_size' = 0
            /\ trace' = <<>>
            /\ UNCHANGED <<stage, convert_artists>>
       ELSE /\ pc' = AfterStage
            /\ stage' = StageAfter
            /\ UNCHANGED <<i, total_original_size, total_converted_size, trace,
                           convert_artists>>
    /\ artists' = <<>>
    /\ choices' = <<>>
    /\ UNCHANGED <<fs, dirs, index_file, dry_run, runs, error, flac_files,
                   m4a_files, loaded, indexed, output_file, report>>

(***************************************************************************)
(* process_files, lines 88-119                                             *)
(***************************************************************************)

\* one entry of the batch's trace: a call of convert_file or a shutil.move
\* (ran: the transcoder was started; exit: its exit status; ok: what
\* convert_file returned)
ConvertEvent(file, out, ok, ran, exit, insize, outsize) ==
    [op |-> "convert", file |-> file, arg |-> out, ok |-> ok, ran |-> ran,
     exit |-> exit, insize |-> insize, outsize |-> outsize]
MoveEvent(file, to) ==
    [op |-> "move", file |-> file, arg |-> to, ok |-> TRUE, ran |-> FALSE,
     exit |-> 0, insize |-> 0, outsize |-> 0]

\* lines 91-98: the loop head, up to the call of convert_file
PfLoop ==
    /\ pc = "pf_loop"
    /\ IF i > Len(files)
       THEN /\ pc' = "pf_end"
            /\ UNCHANGED <<i, output_file, total_original_size, error>>
       ELSE LET file == files[i]
            IN  IF ~IsSelected(file, convert_artists)
                THEN /\ i' = NextFile(i)
                     /\ UNCHANGED <<pc, output_file, total_original_size, error>>
                ELSE IF file \notin DOMAIN fs
                THEN \* line 97: os.path.getsize raises FileNotFoundError
                     /\ pc' = "raised"
                     /\ error' = "FileNotFoundError"
                     /\ output_file' = OutputFile(file)
                     /\ UNCHANGED <<i, total_original_size>>
                ELSE /\ output_file' = OutputFile(file)
                     /\ total_original_size' =
                            AddOriginal(total_original_size, fs[file])
                     /\ pc' = "pf_convert"
                     /\ UNCHANGED <<i, error>>
    /\ UNCHANGED <<fs, dirs, index_file, dry_run, runs, stage, flac_files,
                   m4a_files, loaded, indexed, artists, choices, convert_artists,
                   total_converted_size, report, trace>>

\* faulty variant: the relocation is not guarded by the return value
AfterConvertAlwaysRelocates(ok) ==
    /\ pc' = "pf_relocate"
    /\ i' = i

\* what follows convert_file's return value (lines 99 and 109-110)
AfterConvert(ok) ==
    /\ pc' = IF ok THEN "pf_relocate" ELSE "pf_loop"
    /\ i' = IF ok THEN i ELSE NextFile(i)

\* line 99 in dry-run mode: convert_file only logs (lines 76-77)
PfConvertDry ==
    /\ pc = "pf_convert"
    /\ dry_run
    /\ trace' = Append(trace, ConvertEvent(files[i], output_file,
                                           ConvertFileReturns(TRUE, 0), FALSE,
                                           0, fs[files[i]], 0))
    /\ AfterConvert(ConvertFileReturns(TRUE, 0))
    /\ UNCHANGED <<fs, dirs, index_file, dry_run, runs, error, stage, flac_files,
                   m4a_files, loaded, indexed, artists, choices, convert_artists,
                   output_file, total_original_size, total_converted_size,
                   report>>

\* line 99 in live mode: the transcoder runs (line 79).  It can only exit 0
\* when it could write its output, whose directory must exist.
PfConvertLive ==
    /\ pc = "pf_convert"
    /\ ~dry_run
    /\ \E exit \in ExitCodes, written \in OutSizes :
          /\ exit = 0 => DirName(output_file) \in dirs
          /\ fs' = IF exit = 0
                   THEN [p \in DOMAIN fs \cup {output_file} |->
                            IF p = output_file THEN written ELSE fs[p]]
                   ELSE fs
          /\ trace' = Append(trace, ConvertEvent(files[i], output_file,
                                                 ConvertFileReturns(FALSE, exit),
                                                 TRUE, exit, fs[files[i]],
                                                 IF exit = 0 THEN written ELSE 0))
          /\ AfterConvert(ConvertFileReturns(FALSE, exit))
    /\ UNCHANGED <<dirs, index_file, dry_run, runs, error, stage, flac_files,
                   m4a_files, loaded, indexed, artists, choices, convert_artists,
                   output_file, total_original_size, total_converted_size,
                   report>>

\* lines 100-108: the original is moved into the converted tree
PfRelocate ==
    /\ pc = "pf_relocate"
    /\ LET file     == files[i]
           new_path == NewPath(file, converted_dir)
       IN  /\ dirs' = MakeDirs(dirs, DirName(new_path))
           /\ IF dry_run
              THEN /\ i' = NextFile(i)
                   /\ pc' = "pf_loop"
                   /\ UNCHANGED <<fs, total_converted_size, trace, error>>
              ELSE IF output_file \notin DOMAIN MoveFile(fs, file, new_path)
              THEN \* line 106: os.path.getsize raises FileNotFoundError
                   /\ fs' = MoveFile(fs, file, new_path)
                   /\ trace' = Append(trace, MoveEvent(file, new_path))
                   /\ pc' = "raised"
                   /\ error' = "FileNotFoundError"
                   /\ UNCHANGED <<i, total_converted_size>>
              ELSE /\ fs' = MoveFile(fs, file, new_path)
                   /\ trace' = Append(trace, MoveEvent(file, new_path))
                   /\ total_converted_size' =
                          total_converted_size + fs'[output_file]
                   /\ i' = NextFile(i)
                   /\ pc' = "pf_loop"
                   /\ error' = error
    /\ UNCHANGED <<index_file, dry_run, runs, stage, flac_files, m4a_files,
                   loaded, indexed, artists, choices, convert_artists,
                   output_file, total_original_size, report>>

\* lines 112-119: the report, then process_files returns to main
PfEnd ==
    /\ pc = "pf_end"
    /\ report' = IF dry_run THEN NoReport
                 ELSE [printed   |-> TRUE,
                       original  |-> total_original_size,
                       converted |-> total_converted_size,
                       saved     |-> SpaceSaved(total_original_size,
                                                total_converted_size)]
    /\ pc' = "pf_return"
    /\ UNCHANGED <<fs, dirs, index_file, dry_run, runs, error, stage, flac_files,
                   m4a_files, loaded, indexed, artists, choices, convert_artists,
                   i, output_file, total_original_size, total_converted_size,
                   trace>>

\* process_files returns to main (line 140 or 148); its locals are gone
PfReturn ==
    /\ pc = "pf_return"
    /\ pc' = AfterStage
    /\ stage' = StageAfter
    /\ convert_artists' = <<>>
    /\ i' = 1
    /\ output_file' = <<>>
    /\ total_original_size' = 0 /\ total_converted_size' = 0
    /\ report' = NoReport
    /\ trace' = <<>>
    /\ UNCHANGED <<fs, dirs, index_file, dry_run, runs, error, flac_files,
                   m4a_files, loaded, indexed, artists, choices>>

(***************************************************************************)
(* The script is started again (lines 152-157, and 24-25 on import)        *)
(***************************************************************************)

Restart ==
    /\ pc \in {"done", "raised"}
    /\ runs < MaxRuns
    /\ runs' = runs + 1
    /\ dry_run' \in BOOLEAN
    /\ dirs' = ModuleInit(dirs)
    /\ pc' = "main"
    /\ error' = "none"
    /\ stage' = "flac"
    /\ flac_files' = <<>> /\ m4a_files' = <<>>
    /\ loaded' = FALSE
    /\ artists' = <<>> /\ choices' = <<>> /\ convert_artists' = <<>>
    /\ i' = 1
    /\ output_file' = <<>>
    /\ total_original_size' = 0 /\ total_converted_size' = 0
    /\ report' = NoReport
    /\ trace' = <<>>
    /\ UNCHANGED <<fs, index_file, indexed>>

Next ==
    \/ MainIndex
    \/ MainLoad
    \/ Select
    \/ Dispatch
    \/ PfLoop
    \/ PfConvertDry
    \/ PfConvertLive
    \/ PfRelocate
    \/ PfEnd
    \/ PfReturn
    \/ Restart

Spec == Init /\ [][Next]_vars

(***************************************************************************)
(* Properties                                                              *)
(***************************************************************************)

InBatch == pc \in {"pf_loop", "pf_convert", "pf_relocate", "pf_end", "pf_return"}

ConvertEvents == SelectSeq(trace, LAMBDA e : e.op = "convert")

\* the transcoder ran for this event and exited non-zero
ToolFailed(e) == e.op = "convert" /\ e.ran /\ e.exit # 0

\* the transcoder ran for this event and exited with status 0
ToolSucceeded(e) == e.op = "convert" /\ e.ran /\ e.exit = 0

\* a path lies beneath a directory
Beneath(p, d) == StartsWith(p, d \o <<os_sep>>)

\* a path's part after the media root, counted in tokens
AfterRoot(p) == SubSeq(p, Len(music_dir) + 2, Len(p))

\* the place of a file in the converted tree: same relative path
Mirrored(p, d) == d \o <<os_sep>> \o AfterRoot(p)

\* the files of the batch whose artist segment (index 5) is in the selection
SelectedByArtist(f) ==
    LET parts == StrSplit(f, "/")
    IN  /\ Len(parts) >= 6
        /\ \E k \in 1..Len(convert_artists) : convert_artists[k] = parts[6]

RECURSIVE SumOver(_, _)
SumOver(events, field) ==
    IF Len(events) = 0 THEN 0
    ELSE (IF field = "insize" THEN Head(events).insize ELSE Head(events).outsize)
         + SumOver(Tail(events), field)

\* C1: in live mode a file whose transcoder run exits non-zero stays at its
\* original path and has no entry in either converted tree, and when the batch
\* returns every later selected file of the list has been attempted.
C1_ToolFailureLeavesFileInPlace ==
    (InBatch /\ ~dry_run) =>
        \A k \in 1..Len(trace) :
            ToolFailed(trace[k]) =>
                /\ trace[k].file \in DOMAIN fs
                /\ Mirrored(trace[k].file, flac_converted_dir) \notin DOMAIN fs
                /\ Mirrored(trace[k].file, m4a_converted_dir) \notin DOMAIN fs
                /\ pc = "pf_return" =>
                      \A a, b \in 1..Len(files) :
                          (files[a] = trace[k].file /\ a < b
                           /\ SelectedByArtist(files[b]))
                          => \E h \in (k + 1)..Len(trace) :
                                 trace[h].op = "convert" /\ trace[h].file = files[b]

\* C1 witness: a live batch returned in which a transcoder failure was
\* followed by the successful conversion of a later file.
C1_Witness ==
    /\ pc = "pf_return" /\ ~dry_run
    /\ \E k, h \in 1..Len(trace) :
          /\ k < h
          /\ ToolFailed(trace[k])
          /\ ToolSucceeded(trace[h])

\* C5: the reported space saved is total original minus total converted, not
\* clamped; total original sums the sizes of every attempted file, total
\* converted sums the output sizes of the successful conversions only.
C5_SpaceSavedIsUnclampedDifference ==
    (pc = "pf_return" /\ ~dry_run) =>
        /\ report.printed
        /\ report.original = SumOver(ConvertEvents, "insize")
        /\ report.converted =
               SumOver(SelectSeq(ConvertEvents, ToolSucceeded), "outsize")
        /\ report.saved = report.original - report.converted

\* C5 witness: a report with a failed and a successful conversion whose space
\* saved is negative.
C5_Witness ==
    /\ pc = "pf_return" /\ ~dry_run
    /\ report.saved < 0
    /\ \E k, h \in 1..Len(trace) : ToolFailed(trace[k]) /\ trace[h].op = "move"

C9_LoadReturnsWhatWasSaved ==
    /\ index_file.exists =>
          LoadIndex(index_file.text) =
              [ok |-> TRUE, flac |-> indexed.flac, m4a |-> indexed.m4a]
    /\ (loaded /\ pc # "main") =>
          /\ flac_files = indexed.flac
          /\ m4a_files = indexed.m4a

\* C9 witness: a run that declined the refresh and loaded a snapshot with
\* FLAC and M4A entries.
C9_Witness ==
    /\ loaded /\ pc = "select" /\ stage = "flac"
    /\ Len(flac_files) > 0
    /\ Len(m4a_files) > 0

C2_DryRunBatchLeavesFilesystemUnchanged ==
    /\ [][(dry_run /\ InBatch) => (fs' = fs /\ dirs' = dirs)]_vars
    /\ [](dry_run => \A k \in 1..Len(trace) : trace[k].ok /\ ~trace[k].ran)

\* the artists at the in-range 1-based positions that the numeric tokens of a
\* line name, all other tokens contributing nothing
InRangePicks(menu, line) ==
    LET toks   == StrSplit(line, ",")
        nums   == SelectSeq(toks, LAMBDA t : StrIsDigit(StrStrip(t)))
        values == [k \in 1..Len(nums) |-> StrInt(StrStrip(nums[k]))]
        good   == SelectSeq(values, LAMBDA n : 1 <= n /\ n <= Len(menu))
    IN  [k \in 1..Len(good) |-> menu[good[k]]]

\* the line takes the "all" shortcut of the M4A menu
TakesAllShortcut == stage = "m4a" /\ StrLower(StrStrip(choices)) = <<"a", "l", "l">>

\* C3: select_artists never raises and returns the artists at the in-range
\* positions named by the numeric tokens; out-of-range numbers are dropped.
C3_SelectorDropsOutOfRangeTokens ==
    /\ error # "IndexError"
    /\ (pc = "selected" /\ ~TakesAllShortcut) =>
          convert_artists = InRangePicks(artists, choices)

\* C4: after a live batch every successfully converted file is gone from its
\* original path, is at the mirrored path of the converted tree, and its .mp3
\* output is in the file's original directory.
C4_ConvertedFileMovedAndOutputBeside ==
    (pc = "pf_return" /\ ~dry_run) =>
        \A k \in 1..Len(trace) :
            ToolSucceeded(trace[k]) =>
                /\ trace[k].file \notin DOMAIN fs
                /\ Mirrored(trace[k].file, converted_dir) \in DOMAIN fs
                /\ trace[k].arg \in DOMAIN fs
                /\ EndsWith(trace[k].arg, <<".mp3">>)
                /\ DirName(trace[k].arg) = DirName(trace[k].file)

\* the files with an extension that lie beneath neither converted directory
SourceFiles(ext) ==
    {p \in DOMAIN fs :
        /\ EndsWith(p, <<ext>>)
        /\ ~Beneath(p, flac_converted_dir)
        /\ ~Beneath(p, m4a_converted_dir)}

\* C6: index_music_files returns exactly the .flac and .m4a files that are
\* not beneath a converted directory, also those of a directory whose path
\* merely contains a converted directory's path.
C6_IndexIsExactlyTheSourceFiles ==
    (pc = "select" /\ stage = "flac" /\ ~loaded) =>
        /\ Range(flac_files) = SourceFiles(".flac")
        /\ Range(m4a_files) = SourceFiles(".m4a")

\* C7: the output path differs from the source path only in its final
\* extension, replaced by .mp3.
C7_OutputDiffersOnlyInFinalExtension ==
    InBatch =>
        \A k \in 1..Len(trace) :
            trace[k].op = "convert" =>
                trace[k].arg =
                    SubSeq(trace[k].file, 1, Len(trace[k].file) - 1) \o <<".mp3">>

=============================================================================
